---- MODULE Spec2Model ----
(***************************************************************************)
(* One-dimensional cutting stock: the two Streamlit scripts of the         *)
(* repository.                                                             *)
(*   variant = "single" : src/Cutting_Stock_Problem.py (one stock length,  *)
(*                        minimise the number of stock units)              *)
(*   variant = "multi"  : src/test.py (several stock types with finite     *)
(*                        supply, minimise the total waste)                *)
(* A run is the script body executed after the submit button: generate     *)
(* the patterns, build the integer program, call the solver, extract the   *)
(* solution, report.  The solver (OR-tools / SCIP) is an oracle: it        *)
(* answers OPTIMAL with any minimiser of the model the code built,         *)
(* INFEASIBLE when the model has no solution, or fails (ABNORMAL).         *)
(***************************************************************************)
EXTENDS Integers, Sequences, FiniteSets, TLC

\* ------------------------------------------------------------------ bounds
\* runs: item lengths 1..MaxItemLen, stock lengths up to MaxRawLen, supplies
\* up to MaxStock, kerf up to MaxKerf
MaxItemLen == 2
MaxRawLen == 2
MaxStock == 3
MaxKerf == 1
\* pattern enumeration alone: longer stock, so that patterns of three pieces
\* and items of different lengths in one pattern occur
EnumMaxItemLen == 3
EnumMaxRawLen == 4
\* the required quantities and allowed surpluses of the runs
Counts == {1, 2}
Overs == {0, 1}

\* ------------------------------------------------------- program constants
\* min_value of the length widgets
MinLength == 1
\* min_value of the stock (supply) widget
MinStock == 1
\* min_value of the kerf widget of the multi-stock script
MinKerf == 0

VARIABLES
    variant,        \* which script runs: "single" or "multi"
    items,          \* items / items_to_process: <<[name, length, count, over]>>
    raw_length,     \* single: the stock length typed in the form
    raw_materials,  \* multi: raw_materials_to_process: <<[name, length, stock]>>
    cut_margin,     \* the kerf
    pc,             \* position of the run
    patterns,       \* the list generate_patterns returned
    xkeys,          \* the decision variables, in creation order
    model,          \* the integer program handed to the solver
    status,         \* what solver.Solve() returned
    xval,           \* solution_value() of every variable (OPTIMAL only)
    solution,       \* what optimize / optimize_multi_raw returned
    outcome,        \* the message the run ended with
    diff_table,     \* per item production analysis
    summary,        \* the pattern summary rows, in display order
    solverCreated,  \* number of CreateSolver calls of the run
    solverCalls,    \* number of solver.Solve() calls of the run
    previous        \* the solution of the run before this one, <<>> if none

vars == <<variant, items, raw_length, raw_materials, cut_margin, pc, patterns,
          xkeys, model, status, xval, solution, outcome, diff_table, summary,
          solverCreated, solverCalls, previous>>

\* ---------------------------------------------------------------- helpers
Min(S) == CHOOSE a \in S : \A b \in S : a <= b
Max(S) == CHOOSE a \in S : \A b \in S : a >= b

RECURSIVE SumSeq(_)
SumSeq(s) == IF Len(s) = 0 THEN 0 ELSE Head(s) + SumSeq(Tail(s))

\* sum(a[i] * b[i]) over the first Len(b) positions
RECURSIVE DotUpTo(_, _, _)
DotUpTo(a, b, k) == IF k = 0 THEN 0 ELSE a[k] * b[k] + DotUpTo(a, b, k - 1)

Dot(a, b) == DotUpTo(a, b, Len(b))

RECURSIVE Flatten(_)
Flatten(ss) == IF Len(ss) = 0 THEN <<>> ELSE Head(ss) \o Flatten(Tail(ss))

\* the names of the modelled stock types in lexicographic (string) order
SortedNames == <<"RawA", "RawB">>
NameRank(n) == CHOOSE k \in 1..Len(SortedNames) : SortedNames[k] = n

\* ------------------------------------------------------------- enumeration
\* itertools.product(*[range(m + 1) for m in ms]): lexicographic, the last
\* position running fastest; empty as soon as one range is empty.
RECURSIVE Product(_)
Product(ms) ==
    IF Len(ms) = 0 THEN << <<>> >>
    ELSE LET rest == Product(Tail(ms))
             m == Head(ms)
         IN  IF m < 0 THEN <<>>
             ELSE Flatten([c \in 1..(m + 1) |->
                      [k \in 1..Len(rest) |-> <<c - 1>> \o rest[k]]])

NamesOf(its) == {its[i].name : i \in 1..Len(its)}

\* {items[i]['name']: combo[i] for i in range(len(items))}: a later item of the
\* same name overwrites an earlier one
PatternOf(its, combo, total_len) ==
    [cnt |-> [n \in NamesOf(its) |->
                 combo[Max({i \in 1..Len(its) : its[i].name = n})]],
     used_length |-> total_len]

PiecesLength(its, combo) ==
    SumSeq([i \in 1..Len(its) |-> combo[i] * its[i].length])

\* test.py generate_patterns: kerf charged once per piece
MultiTotalLen(its, combo, kerf) ==
    PiecesLength(its, combo) + kerf * SumSeq(combo)

\* the bound taken one too small
MultiMaxCounts_Short(its, L) ==
    [i \in 1..Len(its) |->
        IF its[i].length > 0 THEN (L \div its[i].length) - 1 ELSE 0]

MultiMaxCounts(its, L) ==
    [i \in 1..Len(its) |->
        IF its[i].length > 0 THEN L \div its[i].length ELSE 0]

MultiGeneratePatterns(its, L, kerf) ==
    LET kept == SelectSeq(Product(MultiMaxCounts(its, L)),
                    LAMBDA combo : /\ SumSeq(combo) # 0
                                   /\ MultiTotalLen(its, combo, kerf) <= L)
    IN  [k \in 1..Len(kept) |->
            PatternOf(its, kept[k], MultiTotalLen(its, kept[k], kerf))]

\* Cutting_Stock_Problem.py generate_patterns: kerf charged once per gap
SingleTotalLen(its, combo, kerf) ==
    PiecesLength(its, combo) + kerf * (SumSeq(combo) - 1)

SingleMaxCounts(its, L) == [i \in 1..Len(its) |-> L \div its[i].length]

SingleGeneratePatterns(its, L, kerf) ==
    LET kept == SelectSeq(Product(SingleMaxCounts(its, L)),
                    LAMBDA combo : /\ SumSeq(combo) # 0
                                   /\ SingleTotalLen(its, combo, kerf) <= L)
    IN  [k \in 1..Len(kept) |->
            PatternOf(its, kept[k], SingleTotalLen(its, kept[k], kerf))]

\* ---------------------------------------------------------- model building
\* A model is [n, cons, obj]: n non-negative integer variables, constraints
\* [coef, sense, rhs] meaning  sum(coef[v] * x[v])  sense  rhs, and the
\* coefficients of the objective to minimise.
\* the minimum taken one too small
Demand_Short(coef, it) ==
    << [coef |-> coef, sense |-> ">=", rhs |-> it.count - 1],
       [coef |-> coef, sense |-> "<=", rhs |-> it.count + it.over] >>

Demand(coef, it) ==
    << [coef |-> coef, sense |-> ">=", rhs |-> it.count],
       [coef |-> coef, sense |-> "<=", rhs |-> it.count + it.over] >>

SingleXKeys(pats) == [i \in 1..Len(pats) |-> i]

SingleObjective(pats) == [i \in 1..Len(pats) |-> 1]

SingleBuildModel(its, pats) ==
    [n    |-> Len(pats),
     cons |-> Flatten([k \in 1..Len(its) |->
                 Demand([i \in 1..Len(pats) |-> pats[i].cnt[its[k].name]],
                        its[k])]),
     obj  |-> SingleObjective(pats)]

\* a variable for every pair
MultiXKeys_All(pats, raws) ==
    Flatten([i \in 1..Len(pats) |-> [j \in 1..Len(raws) |-> <<i, j>>]])

\* x[i, j] exists only when pattern i fits raw material j
MultiXKeys(pats, raws) ==
    SelectSeq(Flatten([i \in 1..Len(pats) |->
                          [j \in 1..Len(raws) |-> <<i, j>>]]),
              LAMBDA key : pats[key[1]].used_length <= raws[key[2]].length)

\* patterns[i].get(name, 0)
PatternGet(pat, name) ==
    IF name \in DOMAIN pat.cnt THEN pat.cnt[name] ELSE 0

\* the supply taken one too large
MultiSupply_Loose(keys, raws) ==
    [j \in 1..Len(raws) |->
        [coef  |-> [v \in 1..Len(keys) |-> IF keys[v][2] = j THEN 1 ELSE 0],
         sense |-> "<=",
         rhs   |-> raws[j].stock + 1]]

MultiSupply(keys, raws) ==
    [j \in 1..Len(raws) |->
        [coef  |-> [v \in 1..Len(keys) |-> IF keys[v][2] = j THEN 1 ELSE 0],
         sense |-> "<=",
         rhs   |-> raws[j].stock]]

\* the objective of the single-stock script: stock units
MultiObjective_Units(keys, pats, raws) == [v \in 1..Len(keys) |-> 1]

\* the length used, not the length left
MultiObjective_UsedLength(keys, pats, raws) ==
    [v \in 1..Len(keys) |-> pats[keys[v][1]].used_length]

MultiObjective(keys, pats, raws) ==
    [v \in 1..Len(keys) |->
        raws[keys[v][2]].length - pats[keys[v][1]].used_length]

MultiBuildModel(its, pats, raws) ==
    LET keys == MultiXKeys(pats, raws)
    IN  [n    |-> Len(keys),
         cons |-> Flatten([k \in 1..Len(its) |->
                     Demand([v \in 1..Len(keys) |->
                                PatternGet(pats[keys[v][1]], its[k].name)],
                            its[k])])
                  \o MultiSupply(keys, raws),
         obj  |-> MultiObjective(keys, pats, raws)]

\* ------------------------------------------------------- the solver oracle
Holds(c, x) ==
    IF c.sense = ">=" THEN Dot(c.coef, x) >= c.rhs ELSE Dot(c.coef, x) <= c.rhs

Feasible(m, x) == \A c \in 1..Len(m.cons) : Holds(m.cons[c], x)

\* The assignments are enumerated variable by variable.  Every coefficient
\* the two scripts build is >= 0, so a branch is cut as soon as a "<="
\* constraint is exceeded; every pattern holds a piece of some item, so a
\* "<=" constraint bounds every variable.
\* res[c] is rhs minus what the variables assigned so far contribute.
VarUB(m, v, res) ==
    LET S == {res[c] \div m.cons[c].coef[v] :
                 c \in {d \in 1..Len(m.cons) :
                           m.cons[d].sense = "<=" /\ m.cons[d].coef[v] > 0}}
    IN  IF S = {} THEN 0 ELSE Min(S)

RECURSIVE Suffixes(_, _, _)
Suffixes(m, k, res) ==
    IF k > m.n THEN {<<>>}
    ELSE UNION {
           {<<v>> \o s :
               s \in Suffixes(m, k + 1,
                        [c \in 1..Len(m.cons) |->
                            res[c] - v * m.cons[c].coef[k]])} :
           v \in 0..VarUB(m, k, res)}

FeasibleSet(m) ==
    {x \in Suffixes(m, 1, [c \in 1..Len(m.cons) |-> m.cons[c].rhs]) :
        Feasible(m, x)}

ObjValue(m, x) == Dot(m.obj, x)

Minimisers(m, F) ==
    LET best == Min({ObjValue(m, x) : x \in F})
    IN  {x \in F : ObjValue(m, x) = best}

\* solution_value() of a variable when the solver holds no solution
NoValues(m) == [v \in 1..m.n |-> 0]

\* ------------------------------------------------------ solution extraction
Repeat(e, n) == [k \in 1..n |-> e]

\* optimize: every pattern repeated x[i] times
SingleExtract(pats, st, xs) ==
    IF st = "OPTIMAL"
    THEN Flatten([i \in 1..Len(pats) |-> Repeat(pats[i], xs[i])])
    ELSE <<>>

\* the threshold taken one too high
MultiExtract_AboveOne(pats, raws, keys, st, xs) ==
    IF st = "OPTIMAL"
    THEN LET used == SelectSeq([v \in 1..Len(keys) |-> v],
                               LAMBDA v : xs[v] > 1)
         IN  [k \in 1..Len(used) |->
                 [pattern      |-> pats[keys[used[k]][1]],
                  count        |-> xs[used[k]],
                  raw_material |-> raws[keys[used[k]][2]]]]
    ELSE <<>>

\* optimize_multi_raw: one triple per variable with count > 0
MultiExtract(pats, raws, keys, st, xs) ==
    IF st = "OPTIMAL"
    THEN LET used == SelectSeq([v \in 1..Len(keys) |-> v],
                               LAMBDA v : xs[v] > 0)
         IN  [k \in 1..Len(used) |->
                 [pattern      |-> pats[keys[used[k]][1]],
                  count        |-> xs[used[k]],
                  raw_material |-> raws[keys[used[k]][2]]]]
    ELSE <<>>

\* ----------------------------------------------------------------- reporting
Classify(diff) ==
    IF diff = 0 THEN "met" ELSE IF diff > 0 THEN "surplus" ELSE "deficit"

Abs(a) == IF a < 0 THEN -a ELSE a

\* single: actual_counts[name] += pattern[name] for every unit of the result
SingleActualCounts(its, res) ==
    [n \in NamesOf(its) |-> SumSeq([k \in 1..Len(res) |-> res[k].cnt[n]])]

SingleDiffTable(its, res) ==
    [k \in 1..Len(its) |->
        LET actual == SingleActualCounts(its, res)[its[k].name]
        IN  [name     |-> its[k].name,
             required |-> its[k].count,
             actual   |-> actual,
             status   |-> Classify(actual - its[k].count),
             diff     |-> Abs(actual - its[k].count)]]

\* the keys of a dict filled in the order of s: first occurrences, in order
FirstOccurrences(s) ==
    LET idx == SelectSeq([k \in 1..Len(s) |-> k],
                         LAMBDA k : \A h \in 1..(k - 1) : s[h] # s[k])
    IN  [k \in 1..Len(idx) |-> s[idx[k]]]

\* single: pattern_summary (a dict, so in insertion order) and summary_table
SingleSummary(res, L) ==
    LET keys == FirstOccurrences([k \in 1..Len(res) |-> res[k].cnt])
    IN  [r \in 1..Len(keys) |->
            LET occ == {k \in 1..Len(res) : res[k].cnt = keys[r]}
            IN  [pattern     |-> keys[r],
                 count       |-> Cardinality(occ),
                 used_length |-> res[Max(occ)].used_length,
                 leftover    |-> L - res[Max(occ)].used_length]]

\* multi: actual_counts[name] += qty * sol['count']
MultiActualCounts(its, sol) ==
    [n \in NamesOf(its) |->
        SumSeq([k \in 1..Len(sol) |->
                   PatternGet(sol[k].pattern, n) * sol[k].count])]

MultiDiffTable(its, sol) ==
    [k \in 1..Len(its) |->
        LET actual == MultiActualCounts(its, sol)[its[k].name]
        IN  [name     |-> its[k].name,
             required |-> its[k].count,
             actual   |-> actual,
             status   |-> Classify(actual - its[k].count),
             diff     |-> actual - its[k].count]]

MultiSummaryRows(sol) ==
    [k \in 1..Len(sol) |->
        [raw         |-> sol[k].raw_material.name,
         pattern     |-> sol[k].pattern.cnt,
         count       |-> sol[k].count,
         used_length |-> sol[k].pattern.used_length,
         leftover    |-> sol[k].raw_material.length
                            - sol[k].pattern.used_length]]

\* both columns ascending
RowBefore_Ascending(a, b) ==
    \/ NameRank(a.raw) < NameRank(b.raw)
    \/ a.raw = b.raw /\ a.count < b.count

\* sort_values(by=[raw, count], ascending=[True, False]): a comes before b
RowBefore(a, b) ==
    \/ NameRank(a.raw) < NameRank(b.raw)
    \/ a.raw = b.raw /\ a.count > b.count

\* a stable sort: every row is placed after the rows that are not after it
RECURSIVE InsertRow(_, _)
InsertRow(row, sorted) ==
    IF Len(sorted) = 0 THEN <<row>>
    ELSE IF RowBefore(row, sorted[Len(sorted)])
         THEN Append(InsertRow(row, SubSeq(sorted, 1, Len(sorted) - 1)),
                     sorted[Len(sorted)])
         ELSE Append(sorted, row)

RECURSIVE SortRows(_)
SortRows(rows) ==
    IF Len(rows) = 0 THEN <<>>
    ELSE InsertRow(rows[Len(rows)], SortRows(SubSeq(rows, 1, Len(rows) - 1)))

MultiSummary(sol) == SortRows(MultiSummaryRows(sol))

\* if not result_patterns: st.error(...) else: st.success(...)
SingleOutcome(res) ==
    IF Len(res) = 0 THEN "OptimizationFailed" ELSE "Success"

\* the test taken the wrong way round
MultiOutcome_Inverted(sol) ==
    IF Len(sol) # 0 THEN "OptimizationFailed" ELSE "Success"

\* if not solution: st.error(...) else: st.success(...)
MultiOutcome(sol) ==
    IF Len(sol) = 0 THEN "OptimizationFailed" ELSE "Success"

\* -------------------------------------------------------------------- inputs
ItemNames == <<"A1", "A2", "A3">>

ItemRecs(n, lens, over) ==
    [name : {n}, length : lens, count : Counts, over : {over}]

\* the form of the single-stock script always shows num_items >= 3 rows
SingleItemLists(lens) ==
    UNION {{<<a, b, c>> : a \in ItemRecs(ItemNames[1], lens, o),
                          b \in ItemRecs(ItemNames[2], lens, o),
                          c \in ItemRecs(ItemNames[3], lens, o)} : o \in Overs}

\* the lists of the multi-stock script after rows were deleted or renamed
MultiItemLists(lens) ==
    UNION {{<<a>> : a \in ItemRecs(ItemNames[1], lens, o)}
           \cup {<<a, b>> : a \in ItemRecs(ItemNames[1], lens, o),
                            b \in ItemRecs(ItemNames[2], lens, o)} : o \in Overs}

RawRecs(n, lens, stock) == [name : {n}, length : lens, stock : {stock}]

MultiRawLists(lens) ==
    UNION {{<<r>> : r \in RawRecs(SortedNames[1], lens, st)}
           \cup {<<r, s>> : r \in RawRecs(SortedNames[2], lens, st),
                            s \in RawRecs(SortedNames[1], lens, st)} :
           st \in MinStock..MaxStock}

\* lists the validation of the multi-stock script refuses
DefaultItem(n) == [name |-> n, length |-> MinLength, count |-> 1, over |-> 0]
DefaultRaw(n) == [name |-> n, length |-> MinLength, stock |-> MinStock]
RefusedInputs ==
    { <<<<DefaultItem(ItemNames[1]), DefaultItem(ItemNames[1])>>,
        <<DefaultRaw(SortedNames[1])>>>>,
      <<<<DefaultItem(ItemNames[1])>>,
        <<DefaultRaw(SortedNames[1]), DefaultRaw(SortedNames[1])>>>>,
      <<<<>>, <<DefaultRaw(SortedNames[1])>>>>,
      <<<<DefaultItem(ItemNames[1])>>, <<>>>> }

Fresh ==
    /\ pc = "start"
    /\ patterns = <<>>
    /\ xkeys = <<>>
    /\ model = [n |-> 0, cons |-> <<>>, obj |-> <<>>]
    /\ status = "NONE"
    /\ xval = <<>>
    /\ solution = <<>>
    /\ outcome = "NONE"
    /\ diff_table = <<>>
    /\ summary = <<>>
    /\ solverCreated = 0
    /\ solverCalls = 0
    /\ previous = <<>>

InitSingle ==
    /\ variant = "single"
    /\ items \in SingleItemLists(MinLength..MaxItemLen)
    /\ raw_length \in 0..MaxRawLen
    /\ raw_materials = <<>>
    /\ cut_margin \in MinKerf..MaxKerf
    /\ Fresh

InitMulti ==
    /\ variant = "multi"
    /\ \/ /\ items \in MultiItemLists(MinLength..MaxItemLen)
          /\ raw_materials \in MultiRawLists(MinLength..MaxRawLen)
       \/ \E p \in RefusedInputs : items = p[1] /\ raw_materials = p[2]
    /\ raw_length = 0
    /\ cut_margin \in MinKerf..MaxKerf
    /\ Fresh

Init == InitSingle \/ InitMulti

\* ------------------------------------------------------------------- actions
Inputs == <<variant, items, raw_length, raw_materials, cut_margin>>

\* Cutting_Stock_Problem.py: patterns = generate_patterns()
SingleGenerate ==
    /\ variant = "single" /\ pc = "start"
    /\ patterns' = SingleGeneratePatterns(items, raw_length, cut_margin)
    /\ pc' = "optimize"
    /\ UNCHANGED <<previous, Inputs, xkeys, model, status, xval, solution, outcome,
                   diff_table, summary, solverCreated, solverCalls>>

HasDuplicates(names) ==
    \E h, k \in 1..Len(names) : h # k /\ names[h] = names[k]

\* test.py: the input validation of the run block
MultiValidate ==
    /\ variant = "multi" /\ pc = "start"
    /\ LET item_names == [k \in 1..Len(items) |-> items[k].name]
           raw_names == [k \in 1..Len(raw_materials) |-> raw_materials[k].name]
       IN  IF HasDuplicates(item_names)
           THEN outcome' = "DuplicateItemName" /\ pc' = "done"
           ELSE IF HasDuplicates(raw_names)
           THEN outcome' = "DuplicateRawName" /\ pc' = "done"
           ELSE IF Len(items) = 0 \/ Len(raw_materials) = 0
           THEN outcome' = "NoInput" /\ pc' = "done"
           ELSE outcome' = outcome /\ pc' = "enumerate"
    /\ UNCHANGED <<previous, Inputs, patterns, xkeys, model, status, xval, solution,
                   diff_table, summary, solverCreated, solverCalls>>

MaxRawLength(raws) == Max({raws[j].length : j \in 1..Len(raws)})

\* test.py: patterns = generate_patterns(...); if not patterns: st.error(...)
MultiGenerate ==
    /\ variant = "multi" /\ pc = "enumerate"
    /\ patterns' = MultiGeneratePatterns(items, MaxRawLength(raw_materials),
                                         cut_margin)
    /\ IF Len(patterns') = 0
       THEN outcome' = "NoPatterns" /\ pc' = "done"
       ELSE outcome' = outcome /\ pc' = "optimize"
    /\ UNCHANGED <<previous, Inputs, xkeys, model, status, xval, solution,
                   diff_table, summary, solverCreated, solverCalls>>

\* optimize, up to solver.Minimize
SingleBuild ==
    /\ variant = "single" /\ pc = "optimize"
    /\ solverCreated' = solverCreated + 1
    /\ xkeys' = SingleXKeys(patterns)
    /\ model' = SingleBuildModel(items, patterns)
    /\ pc' = "built"
    /\ UNCHANGED <<previous, Inputs, patterns, status, xval, solution, outcome,
                   diff_table, summary, solverCalls>>

\* optimize_multi_raw, up to solver.Minimize
MultiBuild ==
    /\ variant = "multi" /\ pc = "optimize"
    /\ solverCreated' = solverCreated + 1
    /\ xkeys' = MultiXKeys(patterns, raw_materials)
    /\ model' = MultiBuildModel(items, patterns, raw_materials)
    /\ pc' = "built"
    /\ UNCHANGED <<previous, Inputs, patterns, status, xval, solution, outcome,
                   diff_table, summary, solverCalls>>

\* status = solver.Solve()
Solve ==
    /\ pc = "built"
    /\ solverCalls' = solverCalls + 1
    /\ pc' = "solved"
    /\ LET F == FeasibleSet(model)
       IN  \/ /\ F # {}
              /\ status' = "OPTIMAL"
              /\ xval' \in Minimisers(model, F)
           \/ /\ F = {}
              /\ status' = "INFEASIBLE"
              /\ xval' = NoValues(model)
           \/ /\ status' = "ABNORMAL"
              /\ xval' = NoValues(model)
    /\ UNCHANGED <<previous, Inputs, patterns, xkeys, model, solution, outcome,
                   diff_table, summary, solverCreated>>

\* optimize: the result list, and its return
SingleReturn ==
    /\ variant = "single" /\ pc = "solved"
    /\ solution' = SingleExtract(patterns, status, xval)
    /\ pc' = "returned"
    /\ UNCHANGED <<previous, Inputs, patterns, xkeys, model, status, xval, outcome,
                   diff_table, summary, solverCreated, solverCalls>>

\* optimize_multi_raw: the solution list, and its return
MultiReturn ==
    /\ variant = "multi" /\ pc = "solved"
    /\ solution' = MultiExtract(patterns, raw_materials, xkeys, status, xval)
    /\ pc' = "returned"
    /\ UNCHANGED <<previous, Inputs, patterns, xkeys, model, status, xval, outcome,
                   diff_table, summary, solverCreated, solverCalls>>

\* Cutting_Stock_Problem.py: if not result_patterns ... else the tables
SingleReport ==
    /\ variant = "single" /\ pc = "returned"
    /\ outcome' = SingleOutcome(solution)
    /\ IF outcome' # "Success"
       THEN UNCHANGED <<diff_table, summary>>
       ELSE /\ diff_table' = SingleDiffTable(items, solution)
            /\ summary' = SingleSummary(solution, raw_length)
    /\ pc' = "done"
    /\ UNCHANGED <<previous, Inputs, patterns, xkeys, model, status, xval, solution,
                   solverCreated, solverCalls>>

\* test.py: if not solution ... else the tables
MultiReport ==
    /\ variant = "multi" /\ pc = "returned"
    /\ outcome' = MultiOutcome(solution)
    /\ IF outcome' # "Success"
       THEN UNCHANGED <<diff_table, summary>>
       ELSE /\ diff_table' = MultiDiffTable(items, solution)
            /\ summary' = MultiSummary(solution)
    /\ pc' = "done"
    /\ UNCHANGED <<previous, Inputs, patterns, xkeys, model, status, xval, solution,
                   solverCreated, solverCalls>>

Next ==
    \/ SingleGenerate
    \/ MultiValidate
    \/ MultiGenerate
    \/ SingleBuild
    \/ MultiBuild
    \/ Solve
    \/ SingleReturn
    \/ MultiReturn
    \/ SingleReport
    \/ MultiReport

Spec == Init /\ [][Next]_vars

\* ------------------------------------------------------ a second run
\* test.py: the item widgets filled in anew with the produced quantities the
\* analysis table shows, no surplus allowed
ImpliedDemand(its, table) ==
    [k \in 1..Len(its) |->
        [name   |-> its[k].name,
         length |-> its[k].length,
         count  |-> table[k].actual,
         over   |-> 0]]

\* test.py: the button pressed again after a successful run, on the implied
\* demand; the script starts from the top
Rerun ==
    /\ variant = "multi" /\ pc = "done" /\ outcome = "Success"
    /\ previous = <<>>
    /\ previous' = solution
    /\ items' = ImpliedDemand(items, diff_table)
    /\ pc' = "start"
    /\ patterns' = <<>>
    /\ xkeys' = <<>>
    /\ model' = [n |-> 0, cons |-> <<>>, obj |-> <<>>]
    /\ status' = "NONE"
    /\ xval' = <<>>
    /\ solution' = <<>>
    /\ outcome' = "NONE"
    /\ diff_table' = <<>>
    /\ summary' = <<>>
    /\ solverCreated' = 0
    /\ solverCalls' = 0
    /\ UNCHANGED <<variant, raw_length, raw_materials, cut_margin>>

NextRerun ==
    \/ MultiValidate
    \/ MultiGenerate
    \/ MultiBuild
    \/ Solve
    \/ MultiReturn
    \/ MultiReport
    \/ Rerun

SpecRerun == InitMulti /\ [][NextRerun]_vars

\* ------------------------------------------- pattern enumeration on its own
\* generate_patterns reads the lengths only: quantities are the widgets' defaults
EnumItem(n, lens) == [name : {n}, length : lens, count : {1}, over : {0}]

EnumItemLists(lens) ==
    {<<a, b, c>> : a \in EnumItem(ItemNames[1], lens),
                   b \in EnumItem(ItemNames[2], lens),
                   c \in EnumItem(ItemNames[3], lens)}

EnumShortLists(lens) ==
    {<<a>> : a \in EnumItem(ItemNames[1], lens)}
    \cup {<<a, b>> : a \in EnumItem(ItemNames[1], lens),
                     b \in EnumItem(ItemNames[2], lens)}

InitEnum ==
    /\ cut_margin \in MinKerf..MaxKerf
    /\ Fresh
    /\ \/ /\ variant = "single"
          /\ items \in EnumItemLists(MinLength..EnumMaxItemLen)
          /\ raw_length \in 0..EnumMaxRawLen
          /\ raw_materials = <<>>
       \/ /\ variant = "multi"
          /\ items \in EnumItemLists(MinLength..EnumMaxItemLen)
                         \cup EnumShortLists(MinLength..EnumMaxItemLen)
          /\ raw_length = 0
          /\ raw_materials \in
                {<<r>> : r \in RawRecs(SortedNames[1],
                                       MinLength..EnumMaxRawLen, MinStock)}

NextEnum == SingleGenerate \/ MultiValidate \/ MultiGenerate

SpecEnum == InitEnum /\ [][NextEnum]_vars

\* ---------------------------------------------------------------- properties
\* the patterns have been generated
Enumerated == pc \notin {"start", "enumerate"} /\ outcome \notin
                 {"DuplicateItemName", "DuplicateRawName", "NoInput"}

\* the limit L the patterns were generated against
Limit == IF variant = "single" THEN raw_length ELSE MaxRawLength(raw_materials)

ItemLength(n) == (CHOOSE i \in {items[k] : k \in 1..Len(items)} : i.name = n).length

Pieces(cnt) == SumSeq([k \in 1..Len(items) |-> cnt[items[k].name]])

\* sum(count_i * length_i) + kerf * (total piece count)
PerPieceLength(cnt) ==
    SumSeq([k \in 1..Len(items) |->
               cnt[items[k].name] * items[k].length])
    + cut_margin * Pieces(cnt)

\* C1: every generated pattern, of either script, holds at least one piece,
\* stores used_length = sum(count * length) + kerf * (number of pieces), and
\* has used_length <= L.
C1_PatternInvariant ==
    Enumerated =>
        \A k \in 1..Len(patterns) :
            /\ Pieces(patterns[k].cnt) >= 1
            /\ patterns[k].used_length = PerPieceLength(patterns[k].cnt)
            /\ patterns[k].used_length <= Limit

\* the count vectors of the claim: non-negative, not all zero, within L when
\* the kerf is charged per piece.  No count exceeds L, the lengths being >= 1.
FeasibleVectors ==
    {cnt \in [NamesOf(items) -> 0..Limit] :
        Pieces(cnt) >= 1 /\ PerPieceLength(cnt) <= Limit}

\* C2: the list generate_patterns of the multi-stock script returns holds
\* every feasible count vector exactly once, with its used_length, and
\* nothing else.
C2_EnumerationComplete ==
    (variant = "multi" /\ Enumerated) =>
        /\ \A cnt \in FeasibleVectors :
               Cardinality({k \in 1..Len(patterns) : patterns[k].cnt = cnt}) = 1
        /\ \A k \in 1..Len(patterns) :
               /\ patterns[k].cnt \in FeasibleVectors
               /\ patterns[k].used_length = PerPieceLength(patterns[k].cnt)

\* Scenario D, scaled: kerf 0, one item of length 1, L = 3: the pattern {3}
\* with used_length 3 has been generated.
C2_Witness ==
    /\ variant = "multi" /\ Enumerated
    /\ cut_margin = 0 /\ Len(items) = 1 /\ items[1].length = 1 /\ Limit = 3
    /\ \E k \in 1..Len(patterns) :
          patterns[k].cnt[items[1].name] = 3 /\ patterns[k].used_length = 3

\* ------------------------------------------------ the program the claims state
\* The integer program of the specification, stated over the variables the
\* run instantiated (xkeys): demand bounds per item, supply bounds per stock
\* type, and the objective (stock units, or waste).
Returned == pc \in {"returned", "done"} /\ solverCalls = 1

PatIdx(v) == IF variant = "single" THEN xkeys[v] ELSE xkeys[v][1]
RawIdx(v) == xkeys[v][2]

ClaimCoef(n) == [v \in 1..Len(xkeys) |-> patterns[PatIdx(v)].cnt[n]]

ClaimDemand ==
    Flatten([k \in 1..Len(items) |->
        << [coef |-> ClaimCoef(items[k].name), sense |-> ">=",
            rhs |-> items[k].count],
           [coef |-> ClaimCoef(items[k].name), sense |-> "<=",
            rhs |-> items[k].count + items[k].over] >>])

ClaimSupply ==
    IF variant = "single" THEN <<>>
    ELSE [j \in 1..Len(raw_materials) |->
             [coef  |-> [v \in 1..Len(xkeys) |-> IF RawIdx(v) = j THEN 1 ELSE 0],
              sense |-> "<=",
              rhs   |-> raw_materials[j].stock]]

ClaimObjective ==
    [v \in 1..Len(xkeys) |->
        IF variant = "single" THEN 1
        ELSE raw_materials[RawIdx(v)].length - patterns[PatIdx(v)].used_length]

ClaimModel ==
    [n |-> Len(xkeys), cons |-> ClaimDemand \o ClaimSupply, obj |-> ClaimObjective]

RECURSIVE Undercut(_, _, _, _)
\* some values of the variables k..n keep every row of m within its residual
\* res and cost, together, at most budget (the costs being non-negative)
Undercut(m, k, res, budget) ==
    IF k > m.n
    THEN \A c \in 1..Len(m.cons) :
             IF m.cons[c].sense = "<=" THEN res[c] >= 0 ELSE res[c] <= 0
    ELSE \E v \in 0..VarUB(m, k, res) :
             /\ v * m.obj[k] <= budget
             /\ Undercut(m, k + 1,
                         [c \in 1..Len(m.cons) |-> res[c] - v * m.cons[c].coef[k]],
                         budget - v * m.obj[k])

\* the rows of the claim's model admit an assignment at all
ClaimFeasible ==
    LET m    == ClaimModel
        rhs  == [c \in 1..Len(m.cons) |-> m.cons[c].rhs]
        most == SumSeq([v \in 1..m.n |-> Abs(m.obj[v]) * VarUB(m, v, rhs)])
    IN  Undercut(m, 1, rhs, most)

\* the produced total of an item, as the report recomputes it
Produced(n) ==
    IF variant = "single" THEN SingleActualCounts(items, solution)[n]
    ELSE MultiActualCounts(items, solution)[n]

\* C3: when the solver answered OPTIMAL, every item's produced total lies in
\* [min_count, min_count + max_over], and no row of the report is a deficit.
C3_DemandSatisfied ==
    (Returned /\ status = "OPTIMAL") =>
        /\ \A k \in 1..Len(items) :
               /\ items[k].count <= Produced(items[k].name)
               /\ Produced(items[k].name) <= items[k].count + items[k].over
        /\ \A r \in 1..Len(diff_table) : diff_table[r].status # "deficit"

\* a reported optimum with one item met exactly and one produced in surplus
C3_Witness ==
    /\ pc = "done" /\ status = "OPTIMAL" /\ outcome = "Success"
    /\ \E r \in 1..Len(diff_table) : diff_table[r].status = "met"
    /\ \E r \in 1..Len(diff_table) :
          diff_table[r].status = "surplus"
          /\ diff_table[r].actual = items[r].count + items[r].over

\* C4: the multi-stock run creates a variable only for a pattern that fits
\* the stock type, so every triple of a solution has count > 0 and
\* used_length <= stock length, and no reported leftover is negative.
C4_FeasiblePairsOnly ==
    variant = "multi" =>
        /\ \A v \in 1..Len(xkeys) :
               patterns[xkeys[v][1]].used_length
                   <= raw_materials[xkeys[v][2]].length
        /\ \A t \in 1..Len(solution) :
               /\ solution[t].count > 0
               /\ solution[t].pattern.used_length
                      <= solution[t].raw_material.length
        /\ \A r \in 1..Len(summary) : summary[r].leftover >= 0

\* a solution is reported although one of its patterns does not fit the
\* other stock type, whose pair was left out
C4_Witness ==
    /\ variant = "multi" /\ pc = "done" /\ outcome = "Success"
    /\ Len(xkeys) < Len(patterns) * Len(raw_materials)
    /\ \E t \in 1..Len(solution), j \in 1..Len(raw_materials) :
          solution[t].pattern.used_length > raw_materials[j].length

\* the stock units of raw material j a solution consumes
UsedStock(j) ==
    SumSeq([t \in 1..Len(solution) |->
               IF solution[t].raw_material = raw_materials[j]
               THEN solution[t].count ELSE 0])

\* C5: no solution of the multi-stock run takes more units of a stock type
\* than its supply; when demand and supplies cannot both be met, no solution
\* is returned.
C5_SupplyBound ==
    (variant = "multi" /\ Returned) =>
        /\ \A j \in 1..Len(raw_materials) :
               UsedStock(j) <= raw_materials[j].stock
        /\ (pc = "returned" /\ ~ClaimFeasible) => solution = <<>>

\* a reported solution that uses up a stock type, of two, entirely
C5_Witness ==
    /\ variant = "multi" /\ pc = "done" /\ outcome = "Success"
    /\ Len(raw_materials) = 2
    /\ \E j \in 1..2 : UsedStock(j) = raw_materials[j].stock
    /\ \E j \in 1..2 : UsedStock(j) < raw_materials[j].stock

\* the objective value of the returned solution
SolutionObjective ==
    IF variant = "single" THEN Len(solution)
    ELSE SumSeq([t \in 1..Len(solution) |->
                    solution[t].count
                    * (solution[t].raw_material.length
                       - solution[t].pattern.used_length)])

\* C6: no assignment to the instantiated variables that meets the demand
\* bounds (and the supply bounds) has a lower objective than the returned
\* solution: stock units for the single-stock run, waste for the multi-stock.
C6_Optimal ==
    (pc = "returned" /\ solution # <<>>) =>
        LET m == ClaimModel
        IN  /\ \A v \in 1..m.n : m.obj[v] >= 0
            /\ ~Undercut(m, 1, [c \in 1..Len(m.cons) |-> m.cons[c].rhs],
                         SolutionObjective - 1)

\* a returned solution that has a feasible alternative of higher cost
C6_Witness ==
    /\ pc = "returned" /\ solution # <<>>
    /\ LET m    == ClaimModel
           cost == SolutionObjective
       IN  \E y \in FeasibleSet(m) : ObjValue(m, y) > cost

InvalidInput ==
    \/ \E k \in 1..Len(items) :
          items[k].length <= 0 \/ items[k].count < 0 \/ items[k].over < 0
    \/ variant = "single" /\ raw_length <= 0
    \/ \E j \in 1..Len(raw_materials) : raw_materials[j].length <= 0

\* C7: when enumeration over a well-formed input yields no pattern, the run
\* ends with the "no pattern" outcome, which differs from the solver's
\* failure, and no solver is created or called; in both scripts.
C7_EmptyPatternSpace ==
    (~InvalidInput /\ Enumerated /\ Len(patterns) = 0) =>
        /\ solverCreated = 0
        /\ solverCalls = 0
        /\ pc = "done" => outcome = "NoPatterns"

\* C8: an input with a non-positive item or stock length, or a negative
\* quantity, is refused as invalid before enumeration: no pattern is
\* generated and no solver is created or called.
C8_InvalidInputRejected ==
    InvalidInput =>
        /\ pc = "start" \/ (pc = "done" /\ outcome = "InvalidInput")
        /\ solverCreated = 0
        /\ solverCalls = 0

BuiltModel ==
    /\ model.n = Len(xkeys)
    /\ Len(model.obj) = Len(xkeys)
    /\ Len(model.cons) = 2 * Len(items) + Len(raw_materials)
    /\ model = IF variant = "single" THEN SingleBuildModel(items, patterns)
               ELSE MultiBuildModel(items, patterns, raw_materials)

Reported == pc = "done" /\ outcome = "Success"

\* the place of a summary row's pattern in the enumeration
PatternPlace(cnt) == CHOOSE k \in 1..Len(patterns) : patterns[k].cnt = cnt

SortedByStockThenCount ==
    \A r, q \in 1..Len(summary) :
        r < q => /\ NameRank(summary[r].raw) <= NameRank(summary[q].raw)
                 /\ summary[r].raw = summary[q].raw =>
                        summary[r].count >= summary[q].count

MultiRowsComplete ==
    /\ Len(summary) = Len(solution)
    /\ \A t \in 1..Len(solution) : \E r \in 1..Len(summary) :
          /\ summary[r].raw = solution[t].raw_material.name
          /\ summary[r].pattern = solution[t].pattern.cnt
          /\ summary[r].count = solution[t].count

SingleRowsComplete ==
    /\ Len(summary) = Cardinality({k \in 1..Len(patterns) : xval[k] > 0})
    /\ \A r \in 1..Len(summary) :
          /\ \E k \in 1..Len(patterns) : patterns[k].cnt = summary[r].pattern
          /\ summary[r].count = xval[PatternPlace(summary[r].pattern)]
          /\ summary[r].count > 0

\* C10 (as amended): the summary holds one row per used pattern (and stock
\* type); the single-stock rows are in pattern enumeration order, whatever
\* their counts; the multi-stock rows are sorted by stock name ascending and,
\* within a stock name, by count descending.
C10_SummaryOrder ==
    Reported =>
        IF variant = "single"
        THEN /\ SingleRowsComplete
             /\ \A r, q \in 1..Len(summary) :
                   r < q => PatternPlace(summary[r].pattern)
                                < PatternPlace(summary[q].pattern)
        ELSE MultiRowsComplete /\ SortedByStockThenCount

\* a multi-stock summary over both stock types with two rows of one stock
\* type and different counts; the solution lists them in another order
C10_Witness ==
    /\ Reported /\ variant = "multi"
    /\ \E r, q \in 1..Len(summary) :
          /\ r < q /\ summary[r].raw = summary[q].raw
          /\ summary[r].count > summary[q].count
    /\ \E r, q \in 1..Len(summary) : summary[r].raw # summary[q].raw
    /\ \E t \in 1..Len(solution) :
          summary[t].raw # solution[t].raw_material.name
          \/ summary[t].count # solution[t].count

\* C10 (as claimed): the single-stock rows are sorted by count descending,
\* equal counts in enumeration order; the multi-stock rows by stock name,
\* then count descending.
C10_SortedByCount ==
    Reported =>
        IF variant = "single"
        THEN \A r, q \in 1..Len(summary) :
                r < q => /\ summary[r].count >= summary[q].count
                         /\ summary[r].count = summary[q].count =>
                                PatternPlace(summary[r].pattern)
                                    < PatternPlace(summary[q].pattern)
        ELSE SortedByStockThenCount

\* the total waste of a multi-stock solution
Waste(sol) ==
    SumSeq([t \in 1..Len(sol) |->
               sol[t].count
               * (sol[t].raw_material.length - sol[t].pattern.used_length)])

\* C11: the multi-stock run repeated on the demand its solution implies
\* (produced quantities as minimums, no surplus) over the same patterns and
\* stock types is never infeasible, and its solution has the same total waste.
C11_Idempotent ==
    previous # <<>> =>
        /\ Enumerated =>
               \A t \in 1..Len(previous) :
                   \E p \in 1..Len(patterns) : patterns[p] = previous[t].pattern
        /\ pc \in {"solved", "returned", "done"} => status # "INFEASIBLE"
        /\ (Returned /\ status = "OPTIMAL") =>
               /\ solution # <<>>
               /\ Waste(solution) = Waste(previous)
        /\ (pc = "done" /\ outcome = "Success") =>
               \A r \in 1..Len(diff_table) : diff_table[r].status = "met"

\* a second run that ended with another solution than the first, of the same
\* waste, which is not zero
C11_Witness ==
    /\ previous # <<>> /\ pc = "done" /\ outcome = "Success"
    /\ solution # previous
    /\ Waste(previous) > 0
    /\ Waste(solution) = Waste(previous)

\* C12: with at least one item required at least once, an OPTIMAL status
\* gives a non-empty solution (the single-stock list holding as many entries
\* as the variables sum to), so a run that called the solver shows the
\* failure message exactly when the status is not OPTIMAL.
C12_FailureIffNotOptimal ==
    (\E k \in 1..Len(items) : items[k].count >= 1) =>
        /\ (Returned /\ status = "OPTIMAL") =>
               /\ solution # <<>>
               /\ variant = "single" => Len(solution) = SumSeq(xval)
        /\ (pc = "done" /\ solverCalls = 1) =>
               /\ outcome = "OptimizationFailed" <=> status # "OPTIMAL"
               /\ outcome = "Success" <=> status = "OPTIMAL"

\* a single-stock success whose list repeats one pattern and leaves another
\* pattern out
C12_Witness ==
    /\ variant = "single" /\ pc = "done"
    /\ status = "OPTIMAL" /\ outcome = "Success"
    /\ \E i \in 1..Len(xval) : xval[i] = 0
    /\ \E i \in 1..Len(xval) : xval[i] >= 2
    /\ Len(solution) = SumSeq(xval)

====
